---- MODULE Spec2Model ----
(***************************************************************************)
(* A model of the code analysis engine of AliceProjects (src/Code.py):     *)
(* CodeAnalyzer, its per-file metric calculator and issue detector, the    *)
(* report aggregator and the report exporter.                              *)
(*                                                                         *)
(* Text is modelled at the character level: a str is a sequence of         *)
(* one-character strings.  A parsed tree is a record                       *)
(*   [type, lineno, end_lineno, name, nargs, children]                     *)
(* whose children are in the order of ast.iter_child_nodes.  ast.parse is  *)
(* a library function: a source file carries its text together with the    *)
(* outcome of parsing it.  Floats are modelled by exact rationals.         *)
(***************************************************************************)
EXTENDS Integers, Sequences, FiniteSets, TLC

VARIABLES
    project,          \* the directory tree: project root and its files
    instance,         \* which CodeAnalyzer object is alive (a fresh one per __init__)
    pc,               \* position of the analyzer: "idle", "analyzing", or the exception
                      \* __init__ raised
    py_files,         \* analyze_project: the files still to be analysed by the loop
    issues,           \* self.issues
    metrics,          \* self.metrics
    analysis_result,  \* self.analysis_result
    clock,            \* datetime.now(), to the second
    disk,             \* the files written under output_dir: path -> document
    written,          \* the export_report calls made so far: path returned, explicit or not
    reports,          \* the analyze_project calls completed so far: instance and returned report
    call,             \* a pure function under test: its name and arguments
    ret,              \* the value that function returned (not done before the call)
    state,            \* CharacterManager.state
    current_expression,    \* CharacterManager.current_expression
    conversation_history   \* DialogueSystem.conversation_history

vars == <<project, instance, pc, py_files, issues, metrics, analysis_result,
          clock, disk, written, reports, call, ret,
          state, current_expression, conversation_history>>

\* the fields of the character manager and of the dialogue system
parts_vars == <<state, current_expression, conversation_history>>

-----------------------------------------------------------------------------
(* Bounds of the model. *)

\* most lines of a generated source text
MaxLines == 2
\* deepest chain of nested blocks in a generated tree
MaxDepth == 5
\* most operands of a generated boolean expression
MaxOperands == 3
\* most issues, and most metrics, an analyzer holds when it is asked for recommendations
MaxEntries == 2
\* most interactions a character records
MaxInteractions == 21
\* most entries added to a conversation history that is nearly full
MaxAdditions == 5
\* most calls of CodeAnalyzer(), analyze_project and export_report in a behaviour
MaxCalls == 3
\* the clock runs through the seconds 0..MaxSeconds
MaxSeconds == 1

-----------------------------------------------------------------------------
(* Python values. *)

\* None where a path is expected (export_report's output_path)
None == <<>>
\* e.lineno of a SyntaxError that carries no line
NoLineno == -1

Min(S) == CHOOSE x \in S : \A y \in S : x <= y
Max(S) == CHOOSE x \in S : \A y \in S : x >= y

\* max(a, b) and min(a, b) of two ints
max2(a, b) == IF a >= b THEN a ELSE b
min2(a, b) == IF a <= b THEN a ELSE b

RECURSIVE SumSeq(_)
SumSeq(s) == IF s = <<>> THEN 0 ELSE Head(s) + SumSeq(Tail(s))

Range(s) == {s[i] : i \in DOMAIN s}

-----------------------------------------------------------------------------
(* str: sequences of characters. *)

UpperCase == <<"A","B","C","D","E","F","G","H","I","J","K","L","M",
               "N","O","P","Q","R","S","T","U","V","W","X","Y","Z">>
LowerCase == <<"a","b","c","d","e","f","g","h","i","j","k","l","m",
               "n","o","p","q","r","s","t","u","v","w","x","y","z">>
Digits == {"0","1","2","3","4","5","6","7","8","9"}

\* the characters str.strip() removes
Whitespace == {" ", "\t", "\n", "\r", "\f"}

\* \w of the re module
WordChar(c) == c \in Range(UpperCase) \cup Range(LowerCase) \cup Digits \cup {"_"}

\* c.lower()
LowerChar(c) ==
    IF c \in Range(UpperCase)
    THEN LowerCase[CHOOSE i \in DOMAIN UpperCase : UpperCase[i] = c]
    ELSE c

\* s.lower()
lower(s) == [i \in DOMAIN s |-> LowerChar(s[i])]

\* c * n
Rep(c, n) == [i \in 1..n |-> c]

\* the first position from i on, and the last one up to i, that strip() keeps
RECURSIVE lstrip_from(_, _)
lstrip_from(s, i) ==
    IF i > Len(s) \/ s[i] \notin Whitespace THEN i ELSE lstrip_from(s, i + 1)
RECURSIVE rstrip_from(_, _)
rstrip_from(s, i) ==
    IF i < 1 \/ s[i] \notin Whitespace THEN i ELSE rstrip_from(s, i - 1)

\* s.strip()
strip(s) == SubSeq(s, lstrip_from(s, 1), rstrip_from(s, Len(s)))

\* s.startswith(p)
startswith(s, p) == Len(s) >= Len(p) /\ SubSeq(s, 1, Len(p)) = p

\* s.endswith(p)
endswith(s, p) == Len(s) >= Len(p) /\ SubSeq(s, Len(s) - Len(p) + 1, Len(s)) = p

\* p in s
contains(p, s) == \E i \in 1..(Len(s) - Len(p) + 1) : SubSeq(s, i, i + Len(p) - 1) = p

\* s.split(sep) for a one-character sep
RECURSIVE split(_, _)
split(s, sep) ==
    IF \A i \in DOMAIN s : s[i] # sep THEN <<s>>
    ELSE LET i == Min({j \in DOMAIN s : s[j] = sep})
         IN  <<SubSeq(s, 1, i - 1)>> \o split(SubSeq(s, i + 1, Len(s)), sep)

\* sep.join(parts)
RECURSIVE join(_, _)
join(sep, parts) ==
    IF parts = <<>> THEN <<>>
    ELSE IF Len(parts) = 1 THEN parts[1]
    ELSE parts[1] \o sep \o join(sep, Tail(parts))

-----------------------------------------------------------------------------
(* float: exact rationals [n, d] with d > 0, in lowest terms. *)

RECURSIVE Gcd(_, _)
Gcd(a, b) == IF b = 0 THEN a ELSE Gcd(b, a % b)

Abs(a) == IF a < 0 THEN -a ELSE a

\* n / d
R(n, d) ==
    LET g == Gcd(Abs(n), d)
    IN  [n |-> n \div g, d |-> d \div g]

RAdd(a, b) ==
    LET l == (a.d \div Gcd(a.d, b.d)) * b.d
    IN  R(a.n * (l \div a.d) + b.n * (l \div b.d), l)
RSub(a, b) == RAdd(a, [n |-> -b.n, d |-> b.d])
RMul(a, b) ==
    LET g1 == Gcd(Abs(a.n), b.d)
        g2 == Gcd(Abs(b.n), a.d)
    IN  R((a.n \div g1) * (b.n \div g2), (a.d \div g2) * (b.d \div g1))
RLe(a, b) == a.n * b.d <= b.n * a.d
RLt(a, b) == a.n * b.d < b.n * a.d
RMin(a, b) == IF RLe(a, b) THEN a ELSE b
RMax(a, b) == IF RLe(b, a) THEN a ELSE b

\* round(x, 2) of a non-negative x: to the nearest hundredth, ties of the exact value
\* to even (a float next to such a tie may go either way)
round2(x) ==
    LET scaled == x.n * 100
        q == scaled \div x.d
        r2 == 2 * (scaled % x.d)
        up == r2 > x.d \/ (r2 = x.d /\ q % 2 = 1)
    IN  R(IF up THEN q + 1 ELSE q, 100)

-----------------------------------------------------------------------------
(* The threshold configuration. *)

THRESHOLDS ==
    [max_line_length |-> 120,
     max_function_length |-> 50,
     max_complexity |-> 20,
     min_maintainability |-> 50,
     max_function_params |-> 5]

-----------------------------------------------------------------------------
(* Parsed trees (the ast module). *)

\* an ast node; children in the order of ast.iter_child_nodes
Node(type, lineno, end_lineno, name, nargs, children) ==
    [type |-> type, lineno |-> lineno, end_lineno |-> end_lineno,
     name |-> name, nargs |-> nargs, children |-> children]

\* isinstance(node, types)
isinstance(node, types) == node.type \in types

\* ast.walk(tree): breadth first, a node before its children
RECURSIVE walkQueue(_)
walkQueue(todo) ==
    IF todo = <<>> THEN <<>>
    ELSE <<Head(todo)>> \o walkQueue(Tail(todo) \o Head(todo).children)

walk(tree) == walkQueue(<<tree>>)

\* node.values of a BoolOp: its children are op, then the operands
values(node) == Tail(node.children)

-----------------------------------------------------------------------------
(* Metric Calculator. *)

\* what one node adds to the complexity
complexity_of_node(node) ==
    IF isinstance(node, {"If", "While", "For", "ExceptHandler"}) THEN 1
    ELSE IF isinstance(node, {"BoolOp"}) THEN Len(values(node)) - 1
    ELSE IF isinstance(node, {"And", "Or"}) THEN 1
    ELSE 0

RECURSIVE complexity_sum(_)
complexity_sum(nodes) ==
    IF nodes = <<>> THEN 0
    ELSE complexity_of_node(Head(nodes)) + complexity_sum(Tail(nodes))

_calculate_complexity(tree) == 1 + complexity_sum(walk(tree))

RECURSIVE max_length_over(_, _)
max_length_over(nodes, max_length) ==
    IF nodes = <<>> THEN max_length
    ELSE LET node == Head(nodes)
         IN  max_length_over(Tail(nodes),
                 IF isinstance(node, {"FunctionDef"})
                 THEN max2(max_length, node.end_lineno - node.lineno)
                 ELSE max_length)

_get_max_function_length(tree) == max_length_over(walk(tree), 0)

\* a variant that forgets the upper clamp
_calculate_maintainability_unclamped(loc, complexity, comments) ==
    IF loc = 0 THEN R(100, 1)
    ELSE RMax(R(0, 1),
              RAdd(RSub(RSub(R(100, 1), RMul(RMin(R(complexity, 50), R(1, 1)), R(40, 1))),
                        RMul(RMul(RMin(R(loc, 1000), R(1, 1)), R(1, 2)), R(20, 1))),
                   RMul(R(comments, loc), R(15, 1))))

\* a variant whose size penalty is not halved
_calculate_maintainability_whole_size(loc, complexity, comments) ==
    IF loc = 0 THEN R(100, 1)
    ELSE LET comment_ratio == R(comments, loc)
             complexity_penalty == RMin(R(complexity, 50), R(1, 1))
             size_penalty == RMin(R(loc, 1000), R(1, 1))
             score == RAdd(RSub(RSub(R(100, 1), RMul(complexity_penalty, R(40, 1))),
                                RMul(size_penalty, R(20, 1))),
                           RMul(comment_ratio, R(15, 1)))
         IN  RMax(R(0, 1), RMin(R(100, 1), score))

_calculate_maintainability(loc, complexity, comments) ==
    IF loc = 0 THEN R(100, 1)
    ELSE LET comment_ratio == R(comments, loc)
             complexity_penalty == RMin(R(complexity, 50), R(1, 1))
             size_penalty == RMul(RMin(R(loc, 1000), R(1, 1)), R(1, 2))
             score == RAdd(RSub(RSub(R(100, 1), RMul(complexity_penalty, R(40, 1))),
                                RMul(size_penalty, R(20, 1))),
                           RMul(comment_ratio, R(15, 1)))
         IN  RMax(R(0, 1), RMin(R(100, 1), score))

\* len([n for n in ast.walk(tree) if isinstance(n, types)])
count_nodes(tree, types) == Len(SelectSeq(walk(tree), LAMBDA n : isinstance(n, types)))

\* the three line counts of _calculate_metrics
count_loc(lines) ==
    Len(SelectSeq(lines, LAMBDA l : strip(l) # <<>> /\ ~startswith(strip(l), <<"#">>)))
count_comment_lines(lines) ==
    Len(SelectSeq(lines, LAMBDA l : startswith(strip(l), <<"#">>)))
count_blank_lines(lines) ==
    Len(SelectSeq(lines, LAMBDA l : strip(l) = <<>>))

\* a variant that gives up on the text too when the parse fails
_calculate_metrics_nothing_on_failure(rel_path, content, parsed) ==
    LET lines == split(content, "\n")
        ok == parsed.exc = "none"
        loc == IF ok THEN count_loc(lines) ELSE 0
        comment_lines == IF ok THEN count_comment_lines(lines) ELSE 0
        blank_lines == IF ok THEN count_blank_lines(lines) ELSE 0
        complexity == IF ok THEN _calculate_complexity(parsed.tree) ELSE 0
    IN  [file |-> rel_path,
         lines_of_code |-> loc,
         comment_lines |-> comment_lines,
         blank_lines |-> blank_lines,
         functions |-> IF ok THEN count_nodes(parsed.tree, {"FunctionDef"}) ELSE 0,
         classes |-> IF ok THEN count_nodes(parsed.tree, {"ClassDef"}) ELSE 0,
         complexity |-> complexity,
         maintainability_index |-> _calculate_maintainability(loc, complexity, comment_lines),
         max_function_length |-> IF ok THEN _get_max_function_length(parsed.tree) ELSE 0,
         imports_count |-> IF ok THEN count_nodes(parsed.tree, {"Import", "ImportFrom"}) ELSE 0]

\* parsed is what ast.parse(content) gives: a tree, or a SyntaxError
_calculate_metrics(rel_path, content, parsed) ==
    LET lines == split(content, "\n")
        loc == count_loc(lines)
        comment_lines == count_comment_lines(lines)
        blank_lines == count_blank_lines(lines)
        ok == parsed.exc = "none"
        complexity == IF ok THEN _calculate_complexity(parsed.tree) ELSE 0
    IN  [file |-> rel_path,
         lines_of_code |-> loc,
         comment_lines |-> comment_lines,
         blank_lines |-> blank_lines,
         functions |-> IF ok THEN count_nodes(parsed.tree, {"FunctionDef"}) ELSE 0,
         classes |-> IF ok THEN count_nodes(parsed.tree, {"ClassDef"}) ELSE 0,
         complexity |-> complexity,
         maintainability_index |-> _calculate_maintainability(loc, complexity, comment_lines),
         max_function_length |-> IF ok THEN _get_max_function_length(parsed.tree) ELSE 0,
         imports_count |-> IF ok THEN count_nodes(parsed.tree, {"Import", "ImportFrom"}) ELSE 0]

-----------------------------------------------------------------------------
(* Issue Detector. *)

CodeIssue(file, line, severity, category, message, suggestion) ==
    [file |-> file, line |-> line, severity |-> severity,
     category |-> category, message |-> message, suggestion |-> suggestion]

RECURSIVE _get_nesting_level(_, _)
RECURSIVE nesting_over(_, _, _)

\* the loop of _get_nesting_level over the children of a node
nesting_over(children, level, max_level) ==
    IF children = <<>> THEN max_level
    ELSE LET child == Head(children)
         IN  nesting_over(Tail(children), level,
                 IF isinstance(child, {"If", "For", "While", "With"})
                 THEN max2(max_level, _get_nesting_level(child, level + 1))
                 ELSE max_level)

_get_nesting_level(node, level) == nesting_over(node.children, level, level)

\* a variant that compares with >= instead of >
long_function_issue_ge(node, rel_path) ==
    LET func_lines == node.end_lineno - node.lineno
    IN  IF isinstance(node, {"FunctionDef"}) /\ func_lines >= THRESHOLDS.max_function_length
        THEN <<CodeIssue(rel_path, node.lineno, "medium", "complexity",
                   [text |-> "function too long", name |-> node.name,
                    func_lines |-> func_lines, limit |-> THRESHOLDS.max_function_length],
                   [text |-> "split the function", limit |-> THRESHOLDS.max_function_length])>>
        ELSE <<>>

\* the long-function rule
long_function_issue(node, rel_path) ==
    LET func_lines == node.end_lineno - node.lineno
    IN  IF isinstance(node, {"FunctionDef"}) /\ func_lines > THRESHOLDS.max_function_length
        THEN <<CodeIssue(rel_path, node.lineno, "medium", "complexity",
                   [text |-> "function too long", name |-> node.name,
                    func_lines |-> func_lines, limit |-> THRESHOLDS.max_function_length],
                   [text |-> "split the function", limit |-> THRESHOLDS.max_function_length])>>
        ELSE <<>>

\* the too-many-parameters rule; nargs is len(node.args.args)
too_many_args_issue(node, rel_path) ==
    IF isinstance(node, {"FunctionDef"}) /\ node.nargs > THRESHOLDS.max_function_params
    THEN <<CodeIssue(rel_path, node.lineno, "medium", "design",
               [text |-> "too many arguments", name |-> node.name, num_args |-> node.nargs],
               [text |-> "group the arguments into an object"])>>
    ELSE <<>>

\* a variant that compares with >= instead of >
deep_nesting_issue_ge(node, rel_path) ==
    IF isinstance(node, {"If", "For", "While"}) /\ _get_nesting_level(node, 0) >= 3
    THEN <<CodeIssue(rel_path, node.lineno, "high", "complexity",
               [text |-> "nesting too deep", nest_level |-> _get_nesting_level(node, 0)],
               [text |-> "reduce nesting"])>>
    ELSE <<>>

\* the deep-nesting rule
deep_nesting_issue(node, rel_path) ==
    IF isinstance(node, {"If", "For", "While"}) /\ _get_nesting_level(node, 0) > 3
    THEN <<CodeIssue(rel_path, node.lineno, "high", "complexity",
               [text |-> "nesting too deep", nest_level |-> _get_nesting_level(node, 0)],
               [text |-> "reduce nesting"])>>
    ELSE <<>>

\* the calls of _get_nesting_level the interpreter has frames for when
\* _detect_ast_issues runs: sys.getrecursionlimit() less the frames in use, scaled
\* down here to just over the deepest tree the generators nest
RecursionLimit == MaxDepth + 3

\* _get_nesting_level(node) raises RecursionError: it calls itself once for every
\* block on the longest way down
overflows(node) ==
    isinstance(node, {"If", "For", "While"}) /\ _get_nesting_level(node, 0) + 1 > RecursionLimit

\* _detect_ast_issues(tree, rel_path) raises RecursionError
detect_raises(tree) == \E i \in DOMAIN walk(tree) : overflows(walk(tree)[i])

\* the issues appended for the nodes, up to the node at which the loop is left by
\* an exception
RECURSIVE ast_issues_over(_, _)
ast_issues_over(nodes, rel_path) ==
    IF nodes = <<>> THEN <<>>
    ELSE IF overflows(Head(nodes))
    THEN long_function_issue(Head(nodes), rel_path) \o too_many_args_issue(Head(nodes), rel_path)
    ELSE long_function_issue(Head(nodes), rel_path)
         \o too_many_args_issue(Head(nodes), rel_path)
         \o deep_nesting_issue(Head(nodes), rel_path)
         \o ast_issues_over(Tail(nodes), rel_path)

\* the issues _detect_ast_issues appends to self.issues
_detect_ast_issues(tree, rel_path) == ast_issues_over(walk(tree), rel_path)

Markers == {<<"T","O","D","O">>, <<"F","I","X","M","E">>, <<"H","A","C","K">>, <<"X","X","X">>}

\* re.search(r'\b(TODO|FIXME|HACK|XXX)\b', line)
search_marker(line) ==
    \E m \in Markers : \E i \in 1..(Len(line) - Len(m) + 1) :
        /\ SubSeq(line, i, i + Len(m) - 1) = m
        /\ (i = 1 \/ ~WordChar(line[i - 1]))
        /\ (i + Len(m) - 1 = Len(line) \/ ~WordChar(line[i + Len(m)]))

\* the keywords of a user-facing message; the source's four emoji are written by name
BannerKeywords ==
    {<<"=","=","=">>, <<"-","-","-">>, <<"check_mark">>, <<"cross_mark">>,
     <<"bar_chart">>, <<"light_bulb">>}

\* a variant that compares with >= instead of >
long_line_issue_ge(i, line, rel_path) ==
    IF Len(line) >= THRESHOLDS.max_line_length
    THEN <<CodeIssue(rel_path, i, "low", "style",
               [text |-> "line too long", length |-> Len(line),
                limit |-> THRESHOLDS.max_line_length],
               [text |-> "split the line", limit |-> THRESHOLDS.max_line_length])>>
    ELSE <<>>

long_line_issue(i, line, rel_path) ==
    IF Len(line) > THRESHOLDS.max_line_length
    THEN <<CodeIssue(rel_path, i, "low", "style",
               [text |-> "line too long", length |-> Len(line),
                limit |-> THRESHOLDS.max_line_length],
               [text |-> "split the line", limit |-> THRESHOLDS.max_line_length])>>
    ELSE <<>>

\* a variant that looks for the markers anywhere, inside words too
todo_issue_substring(i, line, rel_path) ==
    IF \E m \in Markers : contains(m, line)
    THEN <<CodeIssue(rel_path, i, "low", "todo",
               [text |-> "marker comment left"], [text |-> "plan the work"])>>
    ELSE <<>>

todo_issue(i, line, rel_path) ==
    IF search_marker(line)
    THEN <<CodeIssue(rel_path, i, "low", "todo",
               [text |-> "marker comment left"], [text |-> "plan the work"])>>
    ELSE <<>>

debug_print_issue(i, line, rel_path) ==
    IF /\ startswith(strip(line), <<"p","r","i","n","t","(">>)
       /\ ~contains(<<"l","o","g","g","e","r">>, lower(line))
       /\ ~contains(<<"l","o","g">>, lower(line))
       /\ ~\E keyword \in BannerKeywords : contains(keyword, line)
    THEN <<CodeIssue(rel_path, i, "low", "debug",
               [text |-> "debug print left"], [text |-> "use a logger"])>>
    ELSE <<>>

RECURSIVE text_issues_from(_, _, _)
text_issues_from(i, lines, rel_path) ==
    IF i > Len(lines) THEN <<>>
    ELSE long_line_issue(i, lines[i], rel_path)
         \o todo_issue(i, lines[i], rel_path)
         \o debug_print_issue(i, lines[i], rel_path)
         \o text_issues_from(i + 1, lines, rel_path)

\* the issues _detect_text_issues appends to self.issues
_detect_text_issues(lines, rel_path) == text_issues_from(1, lines, rel_path)

\* the issue of the except SyntaxError branch of _detect_issues
syntax_issue(e, rel_path) ==
    CodeIssue(rel_path, IF e.lineno # NoLineno /\ e.lineno # 0 THEN e.lineno ELSE 0,
        "critical", "syntax",
        [text |-> "syntax error", msg |-> e.msg], [text |-> "fix the syntax"])

\* a variant that runs the text rules inside the try block, after the parse
_detect_issues_text_in_try(rel_path, content, parsed) ==
    IF parsed.exc = "none"
    THEN _detect_ast_issues(parsed.tree, rel_path)
         \o _detect_text_issues(split(content, "\n"), rel_path)
    ELSE <<syntax_issue(parsed, rel_path)>>

\* the issues _detect_issues appends to self.issues; when _detect_ast_issues raises,
\* those it has appended so far, and the text rules are not reached
_detect_issues(rel_path, content, parsed) ==
    LET lines == split(content, "\n")
    IN  IF parsed.exc = "none" /\ detect_raises(parsed.tree)
        THEN _detect_ast_issues(parsed.tree, rel_path)
        ELSE (IF parsed.exc = "none"
              THEN _detect_ast_issues(parsed.tree, rel_path)
              ELSE <<syntax_issue(parsed, rel_path)>>)
             \o _detect_text_issues(lines, rel_path)

-----------------------------------------------------------------------------
(* Inputs: source texts, parse outcomes and trees the functions are applied to. *)

\* all sequences over S of length at most n
SeqsUpTo(S, n) == UNION {[1..k -> S] : k \in 0..n}

\* the lines source texts are made of
LineCatalogue ==
    {<<"x","=","1">>,
     <<" "," ","#"," ","c">>,
     <<>>,
     <<" ","\t">>,
     <<"#"," ","T","O","D","O"," ","f","i","x"," ","t","h","i","s">>,
     <<"p","r","i","n","t","(","x",")">>,
     <<"x","=","(">>,
     Rep("x", THRESHOLDS.max_line_length),
     Rep("x", THRESHOLDS.max_line_length + 1)}

\* texts of at most MaxLines catalogue lines, each ended by a newline or the last one not
Texts ==
    {join(<<"\n">>, ls) \o end : ls \in SeqsUpTo(LineCatalogue, MaxLines), end \in {<<>>, <<"\n">>}}

\* lines with and without the markers: one inside a longer word, one in lower case,
\* one after an underscore, two on one line, one between hyphens, one alone
MarkerLines ==
    {<<"#"," ","T","O","D","O","S">>,
     <<"#"," ","t","o","d","o">>,
     <<"x","_","T","O","D","O","=","1">>,
     <<"T","O","D","O",":"," ","a"," ","H","A","C","K">>,
     <<"a","-","F","I","X","M","E","-","b">>,
     <<"X","X","X">>,
     <<"x","=","1">>}

MarkerTexts ==
    {join(<<"\n">>, ls) \o end : ls \in SeqsUpTo(MarkerLines, MaxLines), end \in {<<>>, <<"\n">>}}

\* lines with and without a print call: indented, after a space, of a name that holds
\* the letters log, of a logger, with a banner, in a comment, in an assignment
PrintLines ==
    {<<" "," ","p","r","i","n","t","(","x",")"," ">>,
     <<"p","r","i","n","t"," ","(","x",")">>,
     <<"p","r","i","n","t","(","d","i","a","l","o","g",")">>,
     <<"p","r","i","n","t","(","L","o","g","g","e","r",".","x",")">>,
     <<"p","r","i","n","t","(","'","=","=","=","'",")">>,
     <<"p","r","i","n","t","(","'","-","-","-","'",")">>,
     <<"p","r","i","n","t","(","'","check_mark","'",")">>,
     <<"#"," ","p","r","i","n","t","(","x",")">>,
     <<"y","=","p","r","i","n","t","(","x",")">>}

PrintTexts ==
    {join(<<"\n">>, ls) \o end : ls \in SeqsUpTo(PrintLines, MaxLines), end \in {<<>>, <<"\n">>}}

Leaf(type, line) == Node(type, line, line, "", 0, <<>>)

Module(children) == Node("Module", 0, 0, "", 0, children)

\* blocks nested in one another, outermost first, one per line, around a pass statement
RECURSIVE Chain(_, _)
Chain(types, line) ==
    IF types = <<>> THEN Leaf("Pass", line)
    ELSE Node(Head(types), line, line + Len(types),
              IF Head(types) = "FunctionDef" THEN "f" ELSE "", 0,
              <<Chain(Tail(types), line + 1)>>)

\* def f(<nargs parameters>): at line `line`, ending `length` lines further down
FunctionDef(line, length, nargs) ==
    Node("FunctionDef", line, line + length, "f", nargs,
         <<Node("arguments", line, line, "", 0, [i \in 1..nargs |-> Leaf("arg", line)]),
           Leaf("Pass", line + length)>>)

\* def f(<nargs parameters>, *, <nkwonly parameters>): pass; node.args.args holds the
\* first nargs, node.args.kwonlyargs the others, and all are children of node.args
FunctionDefStar(line, nargs, nkwonly) ==
    Node("FunctionDef", line, line + 1, "f", nargs,
         <<Node("arguments", line, line, "", 0, [i \in 1..(nargs + nkwonly) |-> Leaf("arg", line)]),
           Leaf("Pass", line + 1)>>)

\* <operand> op <operand> ... with n operands
BoolOp(op, n, line) ==
    Node("BoolOp", line, line, "", 0, <<Leaf(op, line)>> \o [i \in 1..n |-> Leaf("Name", line)])

\* if <test>: pass
IfStmt(test, line) == Node("If", line, line + 1, "", 0, <<test, Leaf("Pass", line + 1)>>)

\* try: pass, with h except clauses
TryStmt(h, line) ==
    Node("Try", line, line + 1 + 2 * h, "", 0,
         <<Leaf("Pass", line + 1)>>
         \o [i \in 1..h |-> Node("ExceptHandler", line + 2 * i, line + 2 * i + 1, "", 0,
                                 <<Leaf("Pass", line + 2 * i + 1)>>)])

\* a statement holding an expression
ExprStmt(value, line) == Node("Expr", line, line, "", 0, <<value>>)

BlockTypes == {"If", "For", "While", "With", "FunctionDef"}

FunctionLengths ==
    {0, 1, THRESHOLDS.max_function_length - 1, THRESHOLDS.max_function_length,
     THRESHOLDS.max_function_length + 1, THRESHOLDS.max_function_length + 2}

ParameterCounts == 0..(THRESHOLDS.max_function_params + 2)

\* one-statement pieces of a module, placed at a line
Statements(line) ==
    {IfStmt(Leaf("Name", line), line), TryStmt(0, line), TryStmt(1, line), TryStmt(2, line),
     Chain(<<"While">>, line), Chain(<<"For">>, line), Chain(<<"With">>, line),
     ExprStmt(Leaf("IfExp", line), line), ExprStmt(Leaf("ListComp", line), line),
     Leaf("Import", line), Leaf("ImportFrom", line),
     Node("ClassDef", line, line + 1, "C", 0, <<Leaf("Pass", line + 1)>>)}
    \cup {IfStmt(BoolOp(op, n, line), line) : op \in {"And", "Or"}, n \in 2..MaxOperands}
    \cup {ExprStmt(BoolOp(op, n, line), line) : op \in {"And", "Or"}, n \in 2..MaxOperands}
    \cup {ExprStmt(Node("BoolOp", line, line, "", 0,
                        <<Leaf("And", line), Leaf("Name", line), BoolOp("Or", n, line)>>), line) :
              n \in 2..MaxOperands}

\* if x: pass, then n times elif x: pass, then else: pass; ast puts each elif, an If
\* node, in the orelse of the If before it, after the test and the body
RECURSIVE ElifChain(_, _)
ElifChain(n, line) ==
    Node("If", line, line + 2 * n + 3, "", 0,
         <<Leaf("Name", line), Leaf("Pass", line + 1)>>
         \o (IF n = 0 THEN <<Leaf("Pass", line + 3)>> ELSE <<ElifChain(n - 1, line + 2)>>))

\* If blocks nested `depth` deep
IfChain(depth, line) == Chain([i \in 1..depth |-> "If"], line)

Trees ==
    {Module(<<Chain(types, 1)>>) : types \in SeqsUpTo(BlockTypes, MaxDepth)}
    \cup {Module(<<IfChain(a, 1), IfChain(b, a + 2)>>) : a \in 1..MaxDepth, b \in 1..MaxDepth}
    \cup {Module(<<FunctionDef(line, length, nargs)>>) :
              line \in {1, 3}, length \in FunctionLengths, nargs \in ParameterCounts}
    \cup {Module(<<FunctionDef(1, a, 0), FunctionDef(a + 2, b, 0)>>) :
              a \in FunctionLengths, b \in FunctionLengths}
    \cup {Module(<<FunctionDefStar(1, nargs, nkwonly)>>) :
              nargs \in ParameterCounts, nkwonly \in 1..2}
    \cup {Module(<<ElifChain(n, 1)>>) : n \in 0..MaxDepth}
    \cup {Module(<<s>>) : s \in Statements(1)}
    \cup {Module(<<s, t>>) : s \in Statements(1), t \in Statements(10)}

\* what ast.parse(content) can give
Parsed(tree) == [exc |-> "none", tree |-> tree]
SyntaxError(lineno, msg) == [exc |-> "SyntaxError", lineno |-> lineno, msg |-> msg]

SmallTrees ==
    {Module(<<>>), Module(<<FunctionDef(1, 1, 0)>>),
     Module(<<FunctionDef(1, THRESHOLDS.max_function_length + 1, THRESHOLDS.max_function_params + 1)>>),
     Module(<<IfChain(5, 1)>>)}

ParseOutcomes ==
    {Parsed(t) : t \in SmallTrees}
    \cup {SyntaxError(l, "invalid syntax") : l \in {NoLineno, 0, 1}}

-----------------------------------------------------------------------------
(* The directory tree. *)

\* the characters of paths, in code point order
CharOrder ==
    <<"-", ".", "/", "0", "1", "2", "3", "4", "5", "6", "7", "8", "9", "_">> \o LowerCase

Ord(c) == CHOOSE i \in DOMAIN CharOrder : CharOrder[i] = c

\* a < b for two str
RECURSIVE StrLess(_, _)
StrLess(a, b) ==
    IF b = <<>> THEN FALSE
    ELSE IF a = <<>> THEN TRUE
    ELSE IF Head(a) # Head(b) THEN Ord(Head(a)) < Ord(Head(b))
    ELSE StrLess(Tail(a), Tail(b))

\* a < b for two lists of str
RECURSIVE PartsLess(_, _)
PartsLess(a, b) ==
    IF b = <<>> THEN FALSE
    ELSE IF a = <<>> THEN TRUE
    ELSE IF Head(a) # Head(b) THEN StrLess(Head(a), Head(b))
    ELSE PartsLess(Tail(a), Tail(b))

\* a < b for two Path objects: by their parts
PathLess(a, b) == PartsLess(split(a, "/"), split(b, "/"))

\* sorted(S) for a set of paths
RECURSIVE sorted(_)
sorted(S) ==
    IF S = {} THEN <<>>
    ELSE LET first == CHOOSE x \in S : \A y \in S \ {x} : PathLess(x, y)
         IN  <<first>> \o sorted(S \ {first})

\* the source files a tree may hold, by kind
FileCatalogue ==
    [clean |->
        [readable |-> TRUE,
         content |-> <<"x","=","1","\n">>,
         parsed |-> Parsed(Module(<<Leaf("Assign", 1)>>))],
     long_line |->
        [readable |-> TRUE,
         content |-> Rep("x", THRESHOLDS.max_line_length + 1) \o <<"\n">>,
         parsed |-> Parsed(Module(<<Leaf("Expr", 1)>>))],
     syntax |->
        [readable |-> TRUE,
         content |-> <<"x","=","(","\n","#"," ","T","O","D","O","\n">>,
         parsed |-> SyntaxError(1, "'(' was never closed")],
     long_function |->
        [readable |-> TRUE,
         content |-> join(<<"\n">>, <<<<"d","e","f"," ","f","(",")",":">>>>
                         \o [i \in 1..(THRESHOLDS.max_function_length + 1) |-> <<" ","x","=","1">>])
                     \o <<"\n">>,
         parsed |-> Parsed(Module(<<FunctionDef(1, THRESHOLDS.max_function_length + 1, 0)>>))],
     deep |->
        [readable |-> TRUE,
         content |-> join(<<"\n">>, [i \in 1..5 |-> Rep(" ", i - 1) \o <<"i","f"," ","x",":">>]
                         \o <<Rep(" ", 5) \o <<"p","a","s","s">>>>)
                     \o <<"\n">>,
         parsed |-> Parsed(Module(<<IfChain(5, 1)>>))],
     \* fifty lines of code and nothing to report
     fifty_loc |->
        [readable |-> TRUE,
         content |-> join(<<"\n">>, [i \in 1..50 |-> <<"x","=","1">>]) \o <<"\n">>,
         parsed |-> Parsed(Module([i \in 1..50 |-> Leaf("Assign", i)]))],
     \* ten lines of code, the last one longer than the limit
     ten_loc |->
        [readable |-> TRUE,
         content |-> join(<<"\n">>, [i \in 1..9 |-> <<"x","=","1">>]
                         \o <<Rep("x", THRESHOLDS.max_line_length + 1)>>) \o <<"\n">>,
         parsed |-> Parsed(Module([i \in 1..9 |-> Leaf("Assign", i)] \o <<Leaf("Expr", 10)>>))],
     \* a function of too many parameters, then an if with so many elif branches
     \* that _get_nesting_level runs out of frames, then a marker comment
     long_chain |->
        [readable |-> TRUE,
         content |-> join(<<"\n">>,
                         <<<<"d","e","f"," ","f","(","a",",","b",",","c",",","d",",","e",",","g",")",":">>,
                           <<" ","p","a","s","s">>, <<"i","f"," ","x",":">>, <<" ","p","a","s","s">>>>
                         \o [i \in 1..(2 * RecursionLimit) |->
                                IF i % 2 = 1 THEN <<"e","l","i","f"," ","x",":">>
                                ELSE <<" ","p","a","s","s">>]
                         \o <<<<"e","l","s","e",":">>, <<" ","p","a","s","s">>,
                              <<"#"," ","T","O","D","O">>>>)
                     \o <<"\n">>,
         parsed |-> Parsed(Module(<<FunctionDef(1, 1, THRESHOLDS.max_function_params + 1),
                                    ElifChain(RecursionLimit, 3)>>))],
     unreadable |->
        [readable |-> FALSE, content |-> <<>>, parsed |-> Parsed(Module(<<>>))],
     \* a directory whose name ends in .py: open() raises IsADirectoryError
     directory |->
        [readable |-> FALSE, content |-> <<>>, parsed |-> Parsed(Module(<<>>))],
     \* a sum of too many terms for ast.parse, which raises RecursionError; the text
     \* is cut short here, since nothing reads it after the exception
     unparsable |->
        [readable |-> TRUE,
         content |-> <<"1","+","1","+","1","\n">>,
         parsed |-> [exc |-> "RecursionError"]]]

FileKinds == DOMAIN FileCatalogue

\* the paths, relative to the project root, that a tree may hold
a_py == <<"a", ".", "p", "y">>
b_py == <<"b", ".", "p", "y">>
build_c_py == <<"b", "u", "i", "l", "d", "/", "c", ".", "p", "y">>
n_txt == <<"n", ".", "t", "x", "t">>

ProjectRoot == <<"/", "p">>

\* a root that is not there
MissingRoot == <<"/", "m">>

\* the kinds a.py and b.py are taken from
KindsOfA ==
    {"clean", "long_line", "syntax", "long_function", "deep", "long_chain", "unreadable", "unparsable"}
KindsOfB == {"syntax", "long_line", "unreadable"}

\* the trees: a.py and b.py, each of one of its kinds or absent, beside a build product
\* and a text file; a tree of a file of fifty lines and one of ten lines with a long
\* line; and a root that does not exist
Projects ==
    {[root |-> ProjectRoot, exists |-> TRUE,
      files |-> [q \in S \cup {build_c_py, n_txt} |->
                    IF q \in S THEN f[q] ELSE "clean"]] :
         f \in {g \in [{a_py, b_py} -> FileKinds] :
                    g[a_py] \in KindsOfA /\ g[b_py] \in KindsOfB},
         S \in SUBSET {a_py, b_py}}
    \cup {[root |-> ProjectRoot, exists |-> TRUE,
           files |-> [q \in {a_py, b_py} |-> IF q = a_py THEN "fifty_loc" ELSE "ten_loc"]]}
    \cup {[root |-> MissingRoot, exists |-> FALSE, files |-> <<>>]}

\* str(project_root / rel_path)
full_path(root, rel_path) == root \o <<"/">> \o rel_path

\* file_path.name
name_of(rel_path) == LET parts == split(rel_path, "/") IN parts[Len(parts)]

exclude_patterns ==
    {<<"v","e","n","v">>, <<"_","_","p","y","c","a","c","h","e","_","_">>,
     <<".","g","i","t">>, <<"b","u","i","l","d">>, <<"d","i","s","t">>}

\* the files of the tree to analyse, as paths relative to the root, in sorted order
_get_python_files(tree) ==
    LET rglob == {q \in DOMAIN tree.files : endswith(name_of(q), <<".", "p", "y">>)}
        filtered_files ==
            {q \in rglob : ~\E pattern \in exclude_patterns :
                               contains(pattern, full_path(tree.root, q))}
    IN  sorted(filtered_files)

-----------------------------------------------------------------------------
(* Aggregator/Reporter. *)

\* a variant that records a file it could not read with an entry of its own
_analyze_file_records_failure(self, rel_path, file) ==
    IF ~file.readable
    THEN [issues |-> self.issues,
          metrics |-> Append(self.metrics, _calculate_metrics(rel_path, <<>>, Parsed(Module(<<>>))))]
    ELSE IF file.parsed.exc \notin {"none", "SyntaxError"} THEN self
    ELSE [issues |-> self.issues \o _detect_issues(rel_path, file.content, file.parsed),
          metrics |-> Append(self.metrics,
                             _calculate_metrics(rel_path, file.content, file.parsed))]

\* a variant that reports no issue of a file once an earlier file has reported some
_analyze_file_first_reporter(self, rel_path, file) ==
    IF ~file.readable THEN self
    ELSE IF file.parsed.exc \notin {"none", "SyntaxError"} THEN self
    ELSE [issues |-> IF self.issues = <<>>
                     THEN _detect_issues(rel_path, file.content, file.parsed)
                     ELSE self.issues,
          metrics |-> Append(self.metrics,
                             _calculate_metrics(rel_path, file.content, file.parsed))]

\* self.issues and self.metrics after _analyze_file(file_path); a failure to open or
\* decode the file, or an exception of ast.parse other than SyntaxError (raised in
\* _calculate_metrics, before the append), ends in the except clause
_analyze_file(self, rel_path, file) ==
    IF ~file.readable THEN self
    ELSE IF file.parsed.exc \notin {"none", "SyntaxError"} THEN self
    ELSE [issues |-> self.issues \o _detect_issues(rel_path, file.content, file.parsed),
          metrics |-> Append(self.metrics,
                             _calculate_metrics(rel_path, file.content, file.parsed))]

\* a variant in which an exception raised for a file ends the loop
next_py_files_abort(todo, file) ==
    IF ~file.readable \/ file.parsed.exc \notin {"none", "SyntaxError"} THEN <<>> ELSE Tail(todo)

\* the loop of analyze_project goes on with the next file, whatever the last one did
next_py_files(todo, file) == Tail(todo)

\* a variant that leaves the first value out
RECURSIVE RSum_tail(_)
RSum_tail(s) == IF Len(s) <= 1 THEN R(0, 1) ELSE RAdd(s[2], RSum_tail(Tail(s)))

RECURSIVE RSum(_)
RSum(s) == IF s = <<>> THEN R(0, 1) ELSE RAdd(Head(s), RSum(Tail(s)))

\* now.isoformat(); the model's clock does not tell the fractions of a second apart
isoformat(now) == [second |-> now]

\* now.strftime("%Y%m%d_%H%M%S"): the date and the time of day, to the second
strftime(now) == <<"%Y%m%d_%H%M%S", now>>

\* a variant that leaves the last issue out
count_severity_but_last(iss, severity) ==
    Len(SelectSeq(SubSeq(iss, 1, Len(iss) - 1), LAMBDA d : d.severity = severity))

\* len([i for i in self.issues if i.severity == severity])
count_severity(iss, severity) == Len(SelectSeq(iss, LAMBDA i : i.severity = severity))

\* the list of issues of the report
issues_detail_of(iss) == iss

\* self.analysis_result as _generate_report sets it
_generate_report(iss, met, now) ==
    LET total_loc == SumSeq([k \in DOMAIN met |-> met[k].lines_of_code])
        total_functions == SumSeq([k \in DOMAIN met |-> met[k].functions])
        total_classes == SumSeq([k \in DOMAIN met |-> met[k].classes])
        total_imports == SumSeq([k \in DOMAIN met |-> met[k].imports_count])
        avg_maintainability ==
            IF met # <<>>
            THEN RMul(RSum([k \in DOMAIN met |-> met[k].maintainability_index]), R(1, Len(met)))
            ELSE R(0, 1)
        max_complexity ==
            IF met = <<>> THEN 0 ELSE Max({met[k].complexity : k \in DOMAIN met})
        severity_counts ==
            [critical |-> count_severity(iss, "critical"),
             high |-> count_severity(iss, "high"),
             medium |-> count_severity(iss, "medium"),
             low |-> count_severity(iss, "low")]
    IN  [timestamp |-> isoformat(now),
         thresholds |-> THRESHOLDS,
         summary |->
            [total_loc |-> total_loc,
             total_functions |-> total_functions,
             total_classes |-> total_classes,
             total_imports |-> total_imports,
             avg_maintainability |-> round2(avg_maintainability),
             max_complexity |-> max_complexity],
         issues |-> [total |-> Len(iss), by_severity |-> severity_counts],
         metrics |-> met,
         issues_detail |-> issues_detail_of(iss)]

\* f"{x:.1f}" of a non-negative x: to the nearest tenth, ties of the exact value to even
format_1f(x) ==
    LET scaled == x.n * 10
        q == scaled \div x.d
        r2 == 2 * (scaled % x.d)
        up == r2 > x.d \/ (r2 = x.d /\ q % 2 = 1)
    IN  R(IF up THEN q + 1 ELSE q, 10)

\* a variant that compares the index with <= and the complexity with >=
metric_recommendations_inclusive(metric) ==
    (IF RLe(metric.maintainability_index, R(THRESHOLDS.min_maintainability, 1))
     THEN <<[text |-> "maintainability is low", file |-> metric.file,
             index |-> format_1f(metric.maintainability_index)]>>
     ELSE <<>>)
    \o (IF metric.complexity >= THRESHOLDS.max_complexity
        THEN <<[text |-> "complexity is high", file |-> metric.file,
                complexity |-> metric.complexity, limit |-> THRESHOLDS.max_complexity]>>
        ELSE <<>>)

\* get_recommendations: the lines one metric adds
metric_recommendations(metric) ==
    (IF RLt(metric.maintainability_index, R(THRESHOLDS.min_maintainability, 1))
     THEN <<[text |-> "maintainability is low", file |-> metric.file,
             index |-> format_1f(metric.maintainability_index)]>>
     ELSE <<>>)
    \o (IF metric.complexity > THRESHOLDS.max_complexity
        THEN <<[text |-> "complexity is high", file |-> metric.file,
                complexity |-> metric.complexity, limit |-> THRESHOLDS.max_complexity]>>
        ELSE <<>>)

RECURSIVE recommendations_over(_)
recommendations_over(met) ==
    IF met = <<>> THEN <<>>
    ELSE metric_recommendations(Head(met)) \o recommendations_over(Tail(met))

\* get_recommendations() of an analyzer that holds the issues iss and the metrics met
get_recommendations(iss, met) ==
    LET critical_issues == SelectSeq(iss, LAMBDA i : i.severity = "critical")
        high_issues == SelectSeq(iss, LAMBDA i : i.severity = "high")
    IN  (IF critical_issues # <<>>
         THEN <<[text |-> "critical issues", count |-> Len(critical_issues)]>>
         ELSE <<>>)
        \o (IF high_issues # <<>>
            THEN <<[text |-> "high issues", count |-> Len(high_issues)]>>
            ELSE <<>>)
        \o recommendations_over(met)

\* the explicit output paths export_report is called with
ExplicitPaths == {<<"out", <<"report.json">>>>}

\* the path export_report writes: output_dir / code_analysis_<timestamp>.json by default
output_path_of(output_path, now) ==
    IF output_path = None THEN <<"code", <<"code_analysis_">> \o strftime(now) \o <<".json">>>>
    ELSE output_path

-----------------------------------------------------------------------------
(* The character manager (src/src/parts/character.py): the operations on an object *)
(* self = [state, current_expression].  The name and the personality traits, which  *)
(* these operations leave alone, are left out of the state.                         *)

\* CharacterState(): the defaults of the dataclass
CharacterState ==
    [mood |-> "neutral", energy_level |-> 100, conversation_count |-> 0,
     last_interaction |-> None, topics_discussed |-> <<>>]

\* set_expression(expression) for an expression the generator knows (tired, excited and
\* relaxed are in its table), with _update_mood_from_expression
set_expression(self, expression) ==
    LET mood == CASE expression = "excited" -> "energetic"
                  [] expression = "relaxed" -> "calm"
                  [] expression = "tired" -> "exhausted"
                  [] OTHER -> "neutral"
    IN  [state |-> [self.state EXCEPT !.mood = mood], current_expression |-> expression]

\* a variant that forgets the floor
update_energy_unfloored(self, change) ==
    LET energy_level == min2(100, self.state.energy_level + change)
        updated == [self EXCEPT !.state.energy_level = energy_level]
    IN  IF energy_level < 30 THEN set_expression(updated, "tired")
        ELSE IF energy_level > 80 THEN set_expression(updated, "excited")
        ELSE updated

\* update_energy(change)
update_energy(self, change) ==
    LET energy_level == max2(0, min2(100, self.state.energy_level + change))
        updated == [self EXCEPT !.state.energy_level = energy_level]
    IN  IF energy_level < 30 THEN set_expression(updated, "tired")
        ELSE IF energy_level > 80 THEN set_expression(updated, "excited")
        ELSE updated

-----------------------------------------------------------------------------
(* The dialogue system (src/src/parts/dialogue.py). *)

\* the entries add_to_history keeps
HistoryLimit == 100

\* a variant that keeps the oldest entries
add_to_history_keep_oldest(history, sender, message, now) ==
    LET appended == Append(history, [sender |-> sender, message |-> message,
                                     timestamp |-> isoformat(now)])
    IN  IF Len(appended) > HistoryLimit
        THEN SubSeq(appended, 1, HistoryLimit)
        ELSE appended

\* self.conversation_history after add_to_history(sender, message) at the time now
add_to_history(history, sender, message, now) ==
    LET appended == Append(history, [sender |-> sender, message |-> message,
                                     timestamp |-> isoformat(now)])
    IN  IF Len(appended) > HistoryLimit
        THEN SubSeq(appended, Len(appended) - HistoryLimit + 1, Len(appended))
        ELSE appended

-----------------------------------------------------------------------------
(* The analyzer as a state machine. *)

\* a variant that passes parents=True, and so creates the missing root
mkdir_output_dir_parents(tree) == "ok"

\* self.output_dir.mkdir(exist_ok=True): the directory is made under the root, or is
\* there already; without the root there is no place to make it
mkdir_output_dir(tree) == IF tree.exists THEN "ok" ELSE "FileNotFoundError"

\* where __init__ leaves the caller: with an analyzer, or with the exception raised
constructed(tree) ==
    IF mkdir_output_dir(tree) = "ok" THEN "idle" ELSE mkdir_output_dir(tree)

NoCall == [fn |-> "none"]

\* the calls made so far: constructions after the first, analyses, exports
Calls == (instance - 1) + Len(reports) + Len(written) + (IF pc = "analyzing" THEN 1 ELSE 0)
NotReturned == [done |-> FALSE]

Init ==
    /\ project \in Projects
    /\ instance = 1
    /\ pc = constructed(project)
    /\ py_files = <<>>
    /\ issues = <<>>
    /\ metrics = <<>>
    /\ analysis_result = <<>>
    /\ clock = 0
    /\ disk = <<>>
    /\ written = <<>>
    /\ reports = <<>>
    /\ call = NoCall
    /\ ret = NotReturned
    /\ state = CharacterState
    /\ current_expression = "neutral"
    /\ conversation_history = <<>>

\* CodeAnalyzer(project_root): a fresh analyzer on the same root
New ==
    /\ pc # "analyzing"
    /\ Calls < MaxCalls
    /\ instance' = instance + 1
    /\ pc' = constructed(project)
    /\ issues' = <<>>
    /\ metrics' = <<>>
    /\ analysis_result' = <<>>
    /\ UNCHANGED <<project, py_files, clock, disk, written, reports, call, ret, parts_vars>>

\* analyze_project, up to the loop
StartAnalysis ==
    /\ pc = "idle"
    /\ Calls < MaxCalls
    /\ py_files' = _get_python_files(project)
    /\ pc' = "analyzing"
    /\ UNCHANGED <<project, instance, issues, metrics, analysis_result,
                   clock, disk, written, reports, call, ret, parts_vars>>

\* analyze_project, one turn of the loop: _analyze_file(py_file)
AnalyzeFile ==
    /\ pc = "analyzing"
    /\ py_files # <<>>
    /\ LET rel_path == Head(py_files)
           file == FileCatalogue[project.files[rel_path]]
           self == _analyze_file([issues |-> issues, metrics |-> metrics], rel_path, file)
       IN  /\ issues' = self.issues
           /\ metrics' = self.metrics
           /\ py_files' = next_py_files(py_files, file)
    /\ UNCHANGED <<project, instance, pc, analysis_result,
                   clock, disk, written, reports, call, ret, parts_vars>>

\* analyze_project, after the loop: _generate_report and the return
GenerateReport ==
    /\ pc = "analyzing"
    /\ py_files = <<>>
    /\ analysis_result' = _generate_report(issues, metrics, clock)
    /\ reports' = Append(reports, [instance |-> instance, report |-> analysis_result'])
    /\ pc' = "idle"
    /\ UNCHANGED <<project, instance, py_files, issues, metrics,
                   clock, disk, written, call, ret, parts_vars>>

\* export_report(output_path)
ExportReport ==
    /\ pc = "idle"
    /\ Calls < MaxCalls
    /\ \E output_path \in {None} \cup ExplicitPaths :
           LET path == output_path_of(output_path, clock)
           IN  /\ disk' = [q \in DOMAIN disk \cup {path} |->
                              IF q = path THEN analysis_result ELSE disk[q]]
               /\ written' = Append(written, [path |-> path, explicit |-> output_path # None])
    /\ UNCHANGED <<project, instance, pc, py_files, issues, metrics, analysis_result,
                   clock, reports, call, ret, parts_vars>>

\* a second passes. The clock is read by _generate_report and by export_report only,
\* so time is let pass where the next step may read it.
Tick ==
    /\ pc = "idle" \/ py_files = <<>>
    /\ clock < MaxSeconds
    /\ clock' = clock + 1
    /\ UNCHANGED <<project, instance, pc, py_files, issues, metrics, analysis_result,
                   disk, written, reports, call, ret, parts_vars>>

Next ==
    \/ New
    \/ StartAnalysis
    \/ AnalyzeFile
    \/ GenerateReport
    \/ ExportReport
    \/ Tick

Spec == Init /\ [][Next]_vars

-----------------------------------------------------------------------------
(* The functions of the Metric Calculator and of the Issue Detector, each applied once *)
(* to an input drawn from the generated texts, parse outcomes, trees and numbers.      *)

\* the file the functions are told they work on
TestPath == <<"t", ".", "p", "y">>

LocValues == {0, 1, 2, 7, 100, 999, 1000, 1001, 5000}
ComplexityValues == {0, 1, 10, 49, 50, 51, 200}
CommentValues == {0, 1, 3, 50, 5000}

\* the calls of each function
CalculateMetricsCalls ==
    {[fn |-> "_calculate_metrics", content |-> c, parsed |-> p] :
         c \in Texts, p \in ParseOutcomes}
DetectIssuesCalls ==
    {[fn |-> "_detect_issues", content |-> c, parsed |-> p] :
         c \in Texts, p \in ParseOutcomes}
    \cup {[fn |-> "_detect_issues", content |-> c, parsed |-> p] :
              c \in MarkerTexts \cup PrintTexts,
              p \in {Parsed(Module(<<>>)), SyntaxError(1, "invalid syntax")}}
CalculateMaintainabilityCalls ==
    {[fn |-> "_calculate_maintainability", loc |-> l, complexity |-> c, comments |-> k] :
         l \in LocValues, c \in ComplexityValues, k \in CommentValues}
DetectAstIssuesCalls == {[fn |-> "_detect_ast_issues", tree |-> t] : t \in Trees}
CalculateComplexityCalls == {[fn |-> "_calculate_complexity", tree |-> t] : t \in Trees}

\* the entries a directory tree may hold beside a.py: files in a subdirectory, with a
\* hyphen, of another extension, under the excluded directories, and a directory whose
\* name ends in .py
s_a_py == <<"s", "/", "a", ".", "p", "y">>
s_t_py == <<"s", "-", "t", ".", "p", "y">>
pkg_py == <<"p", "k", "g", ".", "p", "y">>
git_h_py == <<".", "g", "i", "t", "/", "h", ".", "p", "y">>
rebuild_py == <<"r", "e", "b", "u", "i", "l", "d", ".", "p", "y">>
venv_v_py == <<"v", "e", "n", "v", "/", "v", ".", "p", "y">>
pycache_a_py == <<"_", "_", "p", "y", "c", "a", "c", "h", "e", "_", "_", "/", "a", ".", "p", "y">>
dist_d_py == <<"d", "i", "s", "t", "/", "d", ".", "p", "y">>

DistRoot == <<"/", "d", "i", "s", "t">>

\* a tree of regular files, but for pkg.py, under a root
TreeOf(root, paths) ==
    [root |-> root, exists |-> TRUE,
     files |-> [q \in paths |-> IF q = pkg_py THEN "directory" ELSE "clean"]]

EnumeratorTrees ==
    {TreeOf(root, paths) :
         root \in {ProjectRoot, DistRoot},
         paths \in SUBSET {a_py, s_a_py, s_t_py, n_txt, pkg_py, build_c_py, git_h_py, rebuild_py}}
    \cup {TreeOf(ProjectRoot, {a_py, q}) : q \in {venv_v_py, pycache_a_py, dist_d_py}}

GetPythonFilesCalls == {[fn |-> "_get_python_files", tree |-> t] : t \in EnumeratorTrees}

\* the issues and the metrics an analyzer may hold: an issue of each severity; metrics
\* with an index below, at and above min_maintainability and a complexity at and above
\* max_complexity, the k-th of them of the k-th file
HeldIssues ==
    {CodeIssue(a_py, 1, severity, "style", [text |-> "issue"], [text |-> "fix"]) :
         severity \in {"critical", "high", "medium", "low"}}
HeldMetrics ==
    {[file |-> a_py, lines_of_code |-> 1, comment_lines |-> 0, blank_lines |-> 1,
      functions |-> 0, classes |-> 0, complexity |-> c, maintainability_index |-> i,
      max_function_length |-> 0, imports_count |-> 0] :
         c \in {THRESHOLDS.max_complexity, THRESHOLDS.max_complexity + 1},
         i \in {R(100 * THRESHOLDS.min_maintainability - 1, 100),
                R(THRESHOLDS.min_maintainability, 1), R(100, 1)}}
FileAt(k) == <<a_py, b_py, s_a_py, s_t_py>>[k]

GetRecommendationsCalls ==
    {[fn |-> "get_recommendations", issues |-> iss,
      metrics |-> [k \in DOMAIN met |-> [met[k] EXCEPT !.file = FileAt(k)]]] :
         iss \in SeqsUpTo(HeldIssues, MaxEntries), met \in SeqsUpTo(HeldMetrics, MaxEntries)}

Returned(value) == [done |-> TRUE, value |-> value]

PureInit ==
    /\ \/ call \in CalculateMetricsCalls
       \/ call \in DetectIssuesCalls
       \/ call \in CalculateMaintainabilityCalls
       \/ call \in DetectAstIssuesCalls
       \/ call \in CalculateComplexityCalls
       \/ call \in GetPythonFilesCalls
       \/ call \in GetRecommendationsCalls
    /\ ret = NotReturned
    /\ project = [root |-> ProjectRoot, exists |-> TRUE, files |-> [q \in {n_txt} |-> "clean"]]
    /\ instance = 1
    /\ pc = "idle"
    /\ py_files = <<>>
    /\ issues = <<>>
    /\ metrics = <<>>
    /\ analysis_result = <<>>
    /\ clock = 0
    /\ disk = <<>>
    /\ written = <<>>
    /\ reports = <<>>
    /\ state = CharacterState
    /\ current_expression = "neutral"
    /\ conversation_history = <<>>

analyzer_vars ==
    <<project, instance, pc, py_files, issues, metrics, analysis_result,
      clock, disk, written, reports>>

CallCalculateMetrics ==
    /\ call.fn = "_calculate_metrics"
    /\ ~ret.done
    /\ ret' = Returned(_calculate_metrics(TestPath, call.content, call.parsed))
    /\ UNCHANGED <<call, analyzer_vars, parts_vars>>

\* on an analyzer that has collected no issue yet
CallDetectIssues ==
    /\ call.fn = "_detect_issues"
    /\ ~ret.done
    /\ ret' = Returned(_detect_issues(TestPath, call.content, call.parsed))
    /\ UNCHANGED <<call, analyzer_vars, parts_vars>>

CallCalculateMaintainability ==
    /\ call.fn = "_calculate_maintainability"
    /\ ~ret.done
    /\ ret' = Returned(_calculate_maintainability(call.loc, call.complexity, call.comments))
    /\ UNCHANGED <<call, analyzer_vars, parts_vars>>

\* on an analyzer that has collected no issue yet
CallDetectAstIssues ==
    /\ call.fn = "_detect_ast_issues"
    /\ ~ret.done
    /\ ret' = Returned(_detect_ast_issues(call.tree, TestPath))
    /\ UNCHANGED <<call, analyzer_vars, parts_vars>>

CallCalculateComplexity ==
    /\ call.fn = "_calculate_complexity"
    /\ ~ret.done
    /\ ret' = Returned(_calculate_complexity(call.tree))
    /\ UNCHANGED <<call, analyzer_vars, parts_vars>>

CallGetPythonFiles ==
    /\ call.fn = "_get_python_files"
    /\ ~ret.done
    /\ ret' = Returned(_get_python_files(call.tree))
    /\ UNCHANGED <<call, analyzer_vars, parts_vars>>

CallGetRecommendations ==
    /\ call.fn = "get_recommendations"
    /\ ~ret.done
    /\ ret' = Returned(get_recommendations(call.issues, call.metrics))
    /\ UNCHANGED <<call, analyzer_vars, parts_vars>>

PureNext ==
    \/ CallCalculateMetrics
    \/ CallDetectIssues
    \/ CallCalculateMaintainability
    \/ CallDetectAstIssues
    \/ CallCalculateComplexity
    \/ CallGetPythonFiles
    \/ CallGetRecommendations

SpecPure == PureInit /\ [][PureNext]_vars

-----------------------------------------------------------------------------
(* The character manager and the dialogue system as state machines, beside an *)
(* analyzer that is left alone.                                               *)

\* a character manager after __init__ and load_state, which may have loaded any
\* energy and any number of conversations from the state file, and a dialogue system
\* whose history is nearly full: one entry was added at each second so far
PartsInit ==
    /\ state \in {[CharacterState EXCEPT !.energy_level = e, !.conversation_count = c] :
                     e \in {0, 3, 28, 100}, c \in {0, 7}}
    /\ current_expression = "neutral"
    /\ conversation_history \in
           {[k \in 1..n |-> [sender |-> "user", message |-> <<"m">>, timestamp |-> isoformat(k)]] :
                n \in {HistoryLimit - 2, HistoryLimit - 1}}
    /\ clock = Len(conversation_history)
    /\ call = NoCall
    /\ ret = NotReturned
    /\ project = [root |-> ProjectRoot, exists |-> TRUE, files |-> [q \in {n_txt} |-> "clean"]]
    /\ instance = 1
    /\ pc = "idle"
    /\ py_files = <<>>
    /\ issues = <<>>
    /\ metrics = <<>>
    /\ analysis_result = <<>>
    /\ disk = <<>>
    /\ written = <<>>
    /\ reports = <<>>

\* update_energy(change)
UpdateEnergy ==
    /\ \E change \in {-200, -26, -1, 26, 200} :
           LET self == update_energy([state |-> state, current_expression |-> current_expression],
                                     change)
           IN  state' = self.state /\ current_expression' = self.current_expression
    /\ UNCHANGED <<conversation_history, call, ret, analyzer_vars>>

\* rest()
Rest ==
    /\ LET rested == [state |-> [state EXCEPT !.energy_level = min2(100, state.energy_level + 30)],
                      current_expression |-> current_expression]
           self == set_expression(rested, "relaxed")
       IN  state' = self.state /\ current_expression' = self.current_expression
    /\ UNCHANGED <<conversation_history, call, ret, analyzer_vars>>

\* record_interaction(topic)
RecordInteraction ==
    /\ state.conversation_count < MaxInteractions
    /\ \E topic \in {None, <<"a">>} :
           LET counted == [state EXCEPT
                              !.conversation_count = @ + 1,
                              !.last_interaction = <<clock>>,
                              !.topics_discussed =
                                  IF topic # <<>> /\ topic \notin Range(@)
                                  THEN Append(@, topic) ELSE @]
               recorded == [state |-> counted, current_expression |-> current_expression]
               self == IF counted.conversation_count % 10 = 0
                       THEN update_energy(recorded, -5) ELSE recorded
           IN  state' = self.state /\ current_expression' = self.current_expression
    /\ UNCHANGED <<conversation_history, call, ret, analyzer_vars>>

CharacterNext ==
    \/ UpdateEnergy
    \/ Rest
    \/ RecordInteraction

SpecCharacter == PartsInit /\ [][CharacterNext]_vars

\* add_to_history(sender, message); the clock goes on as it is read
AddToHistory ==
    /\ clock < HistoryLimit + MaxAdditions
    /\ \E sender \in {"user", "alice"} :
           conversation_history' = add_to_history(conversation_history, sender, <<"a">>, clock + 1)
    /\ clock' = clock + 1
    /\ UNCHANGED <<state, current_expression, call, ret, project, instance, pc, py_files,
                   issues, metrics, analysis_result, disk, written, reports>>

\* generate_response(user_message): the message, then the response, which
\* random.choice draws from the templates of the topic
GenerateResponse ==
    /\ clock + 1 < HistoryLimit + MaxAdditions
    /\ \E response \in {<<"r">>, <<"s">>} :
           conversation_history' =
               add_to_history(add_to_history(conversation_history, "user", <<"h","i">>, clock + 1),
                              "alice", response, clock + 2)
    /\ clock' = clock + 2
    /\ UNCHANGED <<state, current_expression, call, ret, project, instance, pc, py_files,
                   issues, metrics, analysis_result, disk, written, reports>>

DialogueNext ==
    \/ AddToHistory
    \/ GenerateResponse

SpecDialogue == PartsInit /\ [][DialogueNext]_vars

-----------------------------------------------------------------------------
(* Properties of the report aggregator and of the exporter (under Spec). *)

\* severity order: critical > high > medium > low
SeverityRank(severity) ==
    CASE severity = "critical" -> 4
      [] severity = "high" -> 3
      [] severity = "medium" -> 2
      [] severity = "low" -> 1

\* C1: in every report analyze_project returns, issues_detail is ordered by severity
\* from highest to lowest: no entry is followed by one of a higher severity.
C1_IssuesDetailBySeverity ==
    \A i \in DOMAIN reports :
        LET detail == reports[i].report.issues_detail
        IN  \A j, k \in DOMAIN detail :
                j < k => SeverityRank(detail[j].severity) >= SeverityRank(detail[k].severity)

\* C2: any two analyze_project runs over the unchanged tree, on a fresh analyzer or on
\* the same one, return the same summary block and the same issues block.
C2_RunsAgree ==
    \A i, j \in DOMAIN reports :
        /\ reports[i].report.summary = reports[j].report.summary
        /\ reports[i].report.issues = reports[j].report.issues

\* a file that cannot be read or does not parse
IsBad(rel_path) ==
    LET file == FileCatalogue[project.files[rel_path]]
    IN  ~file.readable \/ file.parsed.exc # "none"

\* the entries of a list of metrics or issues that are not about rel_path
WithoutFile(entries, rel_path) == SelectSeq(entries, LAMBDA e : e.file # rel_path)

\* what an analyzer holds after going over the files once more
RECURSIVE CollectOver(_, _)
CollectOver(self, files) ==
    IF files = <<>> THEN self
    ELSE CollectOver(_analyze_file(self, Head(files), FileCatalogue[project.files[Head(files)]]),
                     Tail(files))

\* what a fresh analyzer holds after runs analyses of the files
RECURSIVE CollectRuns(_, _)
CollectRuns(files, runs) ==
    IF runs = 0 THEN [issues |-> <<>>, metrics |-> <<>>]
    ELSE CollectOver(CollectRuns(files, runs - 1), files)

\* the analyses the analyzer of report i had completed when it returned that report
RunsOf(i) == Cardinality({j \in 1..i : reports[j].instance = reports[i].instance})

\* C3: a file that cannot be read or does not parse does not stop the analysis: the loop
\* goes on to the report, and the report holds, for all the other files, the metrics
\* entries and the issues it would hold if the bad file were not in the tree.
C3_BadFileIsolated ==
    \A i \in DOMAIN reports :
        \A bad \in Range(_get_python_files(project)) :
            IsBad(bad) =>
                LET others == SelectSeq(_get_python_files(project), LAMBDA q : q # bad)
                    expected == CollectRuns(others, RunsOf(i))
                IN  /\ WithoutFile(reports[i].report.metrics, bad) = expected.metrics
                    /\ WithoutFile(reports[i].report.issues_detail, bad) = expected.issues

\* a report is there whose tree begins with a file that raises and goes on with a file
\* that contributed a metrics entry and an issue
C3_Witness ==
    /\ reports # <<>>
    /\ a_py \in DOMAIN project.files /\ b_py \in DOMAIN project.files
    /\ project.files[a_py] \in {"unreadable", "unparsable"}
    /\ \E m \in Range(reports[1].report.metrics) : m.file = b_py
    /\ \E d \in Range(reports[1].report.issues_detail) : d.file = b_py

\* C10: no export_report call that is given no output path writes to the path an
\* earlier export_report call has written.
C10_DefaultPathNeverOverwrites ==
    \A i, j \in DOMAIN written :
        (i < j /\ ~written[j].explicit) => written[j].path # written[i].path

-----------------------------------------------------------------------------
(* Properties of the Metric Calculator and of the Issue Detector (under SpecPure). *)

returned(fn) == call.fn = fn /\ ret.done

IssuesOf(found, severity, category) ==
    SelectSeq(found, LAMBDA d : d.severity = severity /\ d.category = category)

\* C4: for a file that does not parse, _detect_issues gives exactly one critical issue
\* of category syntax and no issue of a rule that needs the tree (complexity, design),
\* while the text rules still run over every line: a line over the length limit gets
\* its style issue and a line with a marker its todo issue.
C4_SyntaxErrorOneIssueTextRulesRun ==
    (returned("_detect_issues") /\ call.parsed.exc = "SyntaxError") =>
        LET lines == split(call.content, "\n")
        IN  /\ Len(IssuesOf(ret.value, "critical", "syntax")) = 1
            /\ \A d \in Range(ret.value) : d.category \notin {"complexity", "design"}
            /\ \A i \in DOMAIN lines :
                   /\ Len(lines[i]) > THRESHOLDS.max_line_length
                          <=> \E d \in Range(ret.value) : d.category = "style" /\ d.line = i
                   /\ search_marker(lines[i])
                          <=> \E d \in Range(ret.value) : d.category = "todo" /\ d.line = i

\* a text that does not parse, with a long line and a marker, has been gone through
C4_Witness ==
    /\ returned("_detect_issues") /\ call.parsed.exc = "SyntaxError"
    /\ \E d \in Range(ret.value) : d.category = "style"
    /\ \E d \in Range(ret.value) : d.category = "todo"

\* the physical lines of a text: its newline-terminated lines, and the last one if it
\* lacks the newline
PhysicalLines(content) ==
    Cardinality({i \in DOMAIN content : content[i] = "\n"})
    + (IF content # <<>> /\ content[Len(content)] # "\n" THEN 1 ELSE 0)

\* C5: the lines of code, comment lines and blank lines _calculate_metrics counts never
\* add up to more than the physical lines of the file, a final newline or not.
C5_CountsWithinPhysicalLines ==
    returned("_calculate_metrics") =>
        ret.value.lines_of_code + ret.value.comment_lines + ret.value.blank_lines
            <= PhysicalLines(call.content)

\* C6: the maintainability index is within 0..100, and is exactly 100 for a file
\* without a line of code.
C6_MaintainabilityWithinRange ==
    /\ returned("_calculate_maintainability") =>
           /\ RLe(R(0, 1), ret.value) /\ RLe(ret.value, R(100, 1))
           /\ call.loc = 0 => ret.value = R(100, 1)
    /\ returned("_calculate_metrics") =>
           /\ RLe(R(0, 1), ret.value.maintainability_index)
           /\ RLe(ret.value.maintainability_index, R(100, 1))
           /\ ret.value.lines_of_code = 0 => ret.value.maintainability_index = R(100, 1)

\* the index of one line of code under many comment lines has been cut down to 100
C6_Witness ==
    /\ returned("_calculate_maintainability")
    /\ call.loc = 1 /\ call.comments = 50
    /\ ret.value = R(100, 1)

\* the if/for/while/with blocks nested below a node, the longest way down
RECURSIVE BlocksBelow(_)
BlocksBelow(node) ==
    LET below == {1 + BlocksBelow(node.children[i]) :
                     i \in {j \in DOMAIN node.children :
                               node.children[j].type \in {"If", "For", "While", "With"}}}
    IN  IF below = {} THEN 0 ELSE Max(below)

\* the if/for/while nodes of a tree, in the order of ast.walk
LoopsAndIfs(tree) == SelectSeq(walk(tree), LAMBDA n : n.type \in {"If", "For", "While"})

\* the nesting of a file: the deepest of its if/for/while nodes
NestingOf(tree) == Max({0} \cup {BlocksBelow(n) : n \in Range(LoopsAndIfs(tree))})

\* C7, as stated: a file whose nesting is exactly 4 deep gets exactly one high issue
\* of category complexity, and one whose nesting is exactly 3 deep gets none.
C7_ExactlyOneAtDepthFour ==
    returned("_detect_ast_issues") =>
        LET nesting == IssuesOf(ret.value, "high", "complexity")
        IN  /\ NestingOf(call.tree) = 4 => Len(nesting) = 1
            /\ NestingOf(call.tree) = 3 => nesting = <<>>

\* C7, amended: a file whose nesting is exactly 4 deep gets one high issue of category
\* complexity for each if/for/while node that is itself 4 deep, at the line of that
\* node and none at the nodes nested in it; a file whose nesting is exactly 3 deep
\* gets none.
C7_OnePerOutermostNest ==
    returned("_detect_ast_issues") =>
        LET nesting == IssuesOf(ret.value, "high", "complexity")
            outermost == SelectSeq(LoopsAndIfs(call.tree), LAMBDA n : BlocksBelow(n) = 4)
        IN  /\ NestingOf(call.tree) = 4 =>
                   /\ Len(nesting) = Len(outermost)
                   /\ Len(nesting) >= 1
                   /\ \A i \in DOMAIN nesting : nesting[i].line = outermost[i].lineno
            /\ NestingOf(call.tree) = 3 => nesting = <<>>

\* a file with one nest that is 4 deep has got its one issue, at the line of the
\* outermost if/for/while of the nest
C7_Witness ==
    /\ returned("_detect_ast_issues")
    /\ NestingOf(call.tree) = 4
    /\ Len(IssuesOf(ret.value, "high", "complexity")) = 1
    /\ \E n \in Range(LoopsAndIfs(call.tree)) :
           BlocksBelow(n) = 4 /\ IssuesOf(ret.value, "high", "complexity")[1].line = n.lineno

\* the function definitions of a tree
FunctionsOf(tree) == SelectSeq(walk(tree), LAMBDA n : n.type = "FunctionDef")

\* C8: a function that spans max_function_length + 1 lines from its first line to its
\* last gets exactly one medium issue of category complexity, at its first line; a
\* function that spans exactly max_function_length lines gets none.
C8_LongFunctionBoundary ==
    (returned("_detect_ast_issues") /\ Len(FunctionsOf(call.tree)) = 1) =>
        LET f == FunctionsOf(call.tree)[1]
            long == IssuesOf(ret.value, "medium", "complexity")
        IN  /\ f.end_lineno - f.lineno = THRESHOLDS.max_function_length + 1 =>
                   Len(long) = 1 /\ long[1].line = f.lineno
            /\ f.end_lineno - f.lineno = THRESHOLDS.max_function_length => long = <<>>

\* a function one line over the limit has got its issue
C8_Witness ==
    /\ returned("_detect_ast_issues")
    /\ Len(FunctionsOf(call.tree)) = 1
    /\ LET f == FunctionsOf(call.tree)[1]
       IN  f.end_lineno - f.lineno = THRESHOLDS.max_function_length + 1
    /\ Len(IssuesOf(ret.value, "medium", "complexity")) = 1

\* C9: the complexity of a tree is 1, plus one for each if/while/for/except node, plus
\* N - 1 for each boolean expression of N operands, and nothing else.
C9_ComplexityFormula ==
    returned("_calculate_complexity") =>
        LET nodes == walk(call.tree)
            branches == SelectSeq(nodes, LAMBDA n :
                            n.type \in {"If", "While", "For", "ExceptHandler"})
            boolops == SelectSeq(nodes, LAMBDA n : n.type = "BoolOp")
        IN  ret.value = 1 + Len(branches)
                          + SumSeq([i \in DOMAIN boolops |-> Len(boolops[i].children) - 2])

-----------------------------------------------------------------------------
(* Properties of the summary of a report (under Spec). *)

\* the sum of a field over the first n entries of a list of metrics
RECURSIVE TotalOf(_, _, _)
TotalOf(met, field, n) == IF n = 0 THEN 0 ELSE TotalOf(met, field, n - 1) + met[n][field]

\* the mean maintainability index of a list of metrics, 0 for the empty list
RECURSIVE IndexTotal(_, _)
IndexTotal(met, n) ==
    IF n = 0 THEN R(0, 1) ELSE RAdd(IndexTotal(met, n - 1), met[n].maintainability_index)
MeanIndex(met) ==
    IF met = <<>> THEN R(0, 1)
    ELSE LET total == IndexTotal(met, Len(met))
         IN  R(total.n, total.d * Len(met))

\* the totals and the maximum of a summary are those of the per-file metrics
TotalsAndMaximum(report) ==
    LET met == report.metrics
        n == Len(met)
    IN  /\ report.summary.total_loc = TotalOf(met, "lines_of_code", n)
        /\ report.summary.total_functions = TotalOf(met, "functions", n)
        /\ report.summary.total_classes = TotalOf(met, "classes", n)
        /\ report.summary.total_imports = TotalOf(met, "imports_count", n)
        /\ \A k \in DOMAIN met : met[k].complexity <= report.summary.max_complexity
        /\ \/ \E k \in DOMAIN met : met[k].complexity = report.summary.max_complexity
           \/ met = <<>> /\ report.summary.max_complexity = 0

\* C11, as stated: in every report the four totals are the sums of the per-file
\* metrics, max_complexity is the largest per-file complexity and avg_maintainability
\* is the mean per-file maintainability index; with no analysed file the mean and the
\* maximum are 0.
C11_SummaryIsSumsMaxAndMean ==
    \A i \in DOMAIN reports :
        /\ TotalsAndMaximum(reports[i].report)
        /\ reports[i].report.summary.avg_maintainability = MeanIndex(reports[i].report.metrics)

\* C11, amended: as above, but avg_maintainability is the mean rounded to two
\* decimals: a multiple of 1/100 at most 1/200 away from the mean.
C11_SummaryIsSumsMaxAndRoundedMean ==
    \A i \in DOMAIN reports :
        LET avg == reports[i].report.summary.avg_maintainability
            mean == MeanIndex(reports[i].report.metrics)
        IN  /\ TotalsAndMaximum(reports[i].report)
            /\ 100 % avg.d = 0
            /\ RLe(RSub(mean, R(1, 200)), avg) /\ RLe(avg, RAdd(mean, R(1, 200)))
            /\ reports[i].report.metrics = <<>> => avg = R(0, 1)

\* a report over two analysed files whose mean index had to be rounded
C11_Witness ==
    \E i \in DOMAIN reports :
        /\ Len(reports[i].report.metrics) = 2
        /\ reports[i].report.summary.avg_maintainability # MeanIndex(reports[i].report.metrics)
        /\ reports[i].report.summary.total_loc > 0

\* C12: in every report issues.total is the number of collected issues and the sum of
\* the four by_severity counts; the report of a fresh analyzer over a file of 50 lines
\* of code without an issue and a file of 10 lines of code with one line over 120
\* characters has total_loc 60, issues.total 1, by_severity.low 1 and the other counts 0.
C12_IssueCountsAddUp ==
    \A i \in DOMAIN reports :
        LET report == reports[i].report
            by_severity == report.issues.by_severity
        IN  /\ report.issues.total = Len(report.issues_detail)
            /\ report.issues.total = by_severity.critical + by_severity.high
                                     + by_severity.medium + by_severity.low
            /\ (RunsOf(i) = 1 /\ DOMAIN project.files = {a_py, b_py}
                /\ project.files[a_py] = "fifty_loc" /\ project.files[b_py] = "ten_loc") =>
                   /\ report.summary.total_loc = 60
                   /\ report.issues.total = 1
                   /\ by_severity = [critical |-> 0, high |-> 0, medium |-> 0, low |-> 1]

\* the report over the file of 50 lines and the file of 10 lines is there
C12_Witness ==
    /\ reports # <<>>
    /\ DOMAIN project.files = {a_py, b_py} /\ project.files[a_py] = "fifty_loc"
    /\ reports[1].report.metrics[1].lines_of_code = 50
    /\ reports[1].report.metrics[2].lines_of_code = 10
    /\ reports[1].report.issues.total = 1

-----------------------------------------------------------------------------
(* Properties of the failures (under Spec). *)

\* C16: when the project root does not exist, the construction of the analyzer fails
\* with FileNotFoundError, and so before any file is enumerated or read and before any
\* metrics or issue is collected: no analysis starts, no report and no file is written.
C16_MissingRootFailsFirst ==
    ~project.exists =>
        /\ pc = "FileNotFoundError"
        /\ py_files = <<>> /\ metrics = <<>> /\ issues = <<>>
        /\ analysis_result = <<>> /\ reports = <<>> /\ written = <<>>

\* the analyzer has been constructed twice on a root that is not there
C16_Witness ==
    ~project.exists /\ pc = "FileNotFoundError" /\ instance = 2

\* C17: the turn of the loop that meets a file it cannot open or decode leaves
\* self.metrics and self.issues as the earlier files made them, and goes on with the
\* next file of the list.
C17_UnreadableFileSkipped ==
    [][(pc = "analyzing" /\ py_files # <<>>
        /\ ~FileCatalogue[project.files[Head(py_files)]].readable) =>
           /\ metrics' = metrics
           /\ issues' = issues
           /\ pc' = "analyzing"
           /\ py_files' = Tail(py_files)]_vars

\* b.py, which cannot be read, has been passed after a.py, which left its metrics
C17_Witness ==
    /\ pc = "analyzing" /\ py_files = <<>>
    /\ project.exists /\ DOMAIN project.files = {a_py, b_py, build_c_py, n_txt}
    /\ project.files[b_py] = "unreadable"
    /\ Len(metrics) = 1 /\ metrics[1].file = a_py
    /\ issues # <<>>

-----------------------------------------------------------------------------
(* Properties of the enumerator (under SpecPure). *)

\* C13: _get_python_files returns exactly the files under the root whose name ends in
\* .py and whose path holds none of the exclusion tokens, each once, in ascending order.
C13_ExactlyTheSourceFiles ==
    returned("_get_python_files") =>
        LET tree == call.tree
            expected ==
                {q \in DOMAIN tree.files :
                    /\ tree.files[q] # "directory"
                    /\ endswith(q, <<".", "p", "y">>)
                    /\ \A token \in exclude_patterns : ~contains(token, full_path(tree.root, q))}
        IN  /\ Range(ret.value) = expected
            /\ Len(ret.value) = Cardinality(expected)
            /\ \A i \in 1..(Len(ret.value) - 1) : PathLess(ret.value[i], ret.value[i + 1])

-----------------------------------------------------------------------------
(* Properties of the metrics of a file that does not parse (under SpecPure). *)

\* a line of whitespace only, and a line whose first other character is #
IsBlankLine(line) == \A i \in DOMAIN line : line[i] \in Whitespace
IsCommentLine(line) ==
    \E i \in DOMAIN line :
        line[i] = "#" /\ \A j \in 1..(i - 1) : line[j] \in Whitespace

\* C14: for a text that does not parse, _calculate_metrics returns a record whose
\* functions, classes, complexity, max_function_length and imports_count are 0, and
\* whose lines_of_code, comment_lines and blank_lines are counted from the lines of the
\* text, as they are for a text that parses.
C14_ParseFailureKeepsLineMetrics ==
    returned("_calculate_metrics") =>
        LET lines == split(call.content, "\n")
            blank == {i \in DOMAIN lines : IsBlankLine(lines[i])}
            comment == {i \in DOMAIN lines : IsCommentLine(lines[i])}
        IN  /\ ret.value.blank_lines = Cardinality(blank)
            /\ ret.value.comment_lines = Cardinality(comment)
            /\ ret.value.lines_of_code = Len(lines) - Cardinality(blank) - Cardinality(comment)
            /\ call.parsed.exc = "SyntaxError" =>
                   /\ ret.value.functions = 0
                   /\ ret.value.classes = 0
                   /\ ret.value.complexity = 0
                   /\ ret.value.max_function_length = 0
                   /\ ret.value.imports_count = 0

\* the metrics of a text that does not parse, with a line of code and a comment line
C14_Witness ==
    /\ returned("_calculate_metrics") /\ call.parsed.exc = "SyntaxError"
    /\ ret.value.lines_of_code = 1 /\ ret.value.comment_lines = 1
    /\ ret.value.complexity = 0

-----------------------------------------------------------------------------
(* Properties of the recommendations (under SpecPure). *)

\* what a line of the recommendations is about
AboutOf(line) == IF "file" \in DOMAIN line THEN <<line.text, line.file>> ELSE <<line.text>>

\* the lines due for the first n metrics, in their order
RECURSIVE DueForMetrics(_, _)
DueForMetrics(met, n) ==
    IF n = 0 THEN <<>>
    ELSE DueForMetrics(met, n - 1)
         \o (IF met[n].maintainability_index.n
                    < THRESHOLDS.min_maintainability * met[n].maintainability_index.d
             THEN <<<<"maintainability is low", met[n].file>>>> ELSE <<>>)
         \o (IF met[n].complexity > THRESHOLDS.max_complexity
             THEN <<<<"complexity is high", met[n].file>>>> ELSE <<>>)

\* C15: get_recommendations returns, in this order and nothing else: one line if there
\* is a critical issue, one line if there is a high issue, then for each file in the
\* order of the metrics one line if its maintainability index is below
\* min_maintainability and one line if its complexity is above max_complexity.
C15_RecommendationsInOrder ==
    returned("get_recommendations") =>
        [k \in DOMAIN ret.value |-> AboutOf(ret.value[k])]
            = (IF \E d \in Range(call.issues) : d.severity = "critical"
               THEN <<<<"critical issues">>>> ELSE <<>>)
              \o (IF \E d \in Range(call.issues) : d.severity = "high"
                  THEN <<<<"high issues">>>> ELSE <<>>)
              \o DueForMetrics(call.metrics, Len(call.metrics))

\* both aggregate lines and both lines of a second file have been returned
C15_Witness ==
    /\ returned("get_recommendations")
    /\ Len(call.metrics) = 2
    /\ Len(ret.value) = 4
    /\ ret.value[1].text = "critical issues" /\ ret.value[2].text = "high issues"
    /\ ret.value[3].file = b_py /\ ret.value[4].file = b_py

-----------------------------------------------------------------------------
(* Detection order of the issues. *)

\* the place of an issue's rule in the list of rules
RuleRank(issue) ==
    CASE issue.message.text = "syntax error" -> 1
      [] issue.message.text = "function too long" -> 2
      [] issue.message.text = "too many arguments" -> 3
      [] issue.message.text = "nesting too deep" -> 4
      [] issue.message.text = "line too long" -> 5
      [] issue.message.text = "marker comment left" -> 6
      [] issue.message.text = "debug print left" -> 7

\* C18: within one file the issues appear in the order of the rules: syntax failure,
\* long function, too many parameters, deep nesting, long line, marker comment, debug
\* print (under SpecPure, on the issues _detect_issues returns for one file).
C18_IssuesInRuleOrder ==
    returned("_detect_issues") =>
        \A i, j \in DOMAIN ret.value :
            i < j => RuleRank(ret.value[i]) <= RuleRank(ret.value[j])

-----------------------------------------------------------------------------
(* Independence of the files (under Spec). *)

\* what the analysis of a file gives an analyzer that has analysed nothing
AnalysedAlone(rel_path) ==
    _analyze_file([issues |-> <<>>, metrics |-> <<>>], rel_path,
                  FileCatalogue[project.files[rel_path]])

-----------------------------------------------------------------------------
(* The marker comments (under SpecPure). *)

\* a marker stands at position k of the text as a whole word
MarkerWordAt(content, k) ==
    \E m \in Markers :
        /\ k + Len(m) - 1 <= Len(content)
        /\ SubSeq(content, k, k + Len(m) - 1) = m
        /\ (k = 1 \/ ~WordChar(content[k - 1]))
        /\ (k + Len(m) - 1 = Len(content) \/ ~WordChar(content[k + Len(m)]))

\* the number of the line that holds position k
LineNumberOf(content, k) == 1 + Cardinality({j \in 1..(k - 1) : content[j] = "\n"})

\* the numbers of the lines that hold a whole-word marker
MarkedLines(content) ==
    {LineNumberOf(content, k) : k \in {p \in DOMAIN content : MarkerWordAt(content, p)}}

\* C20: _detect_issues gives exactly one low/todo issue at the number of every line
\* that holds at least one whole-word marker, whatever the other lines hold and whether
\* or not the file parses, and no todo issue at any other line.
C20_OneTodoPerMarkedLine ==
    returned("_detect_issues") =>
        LET todos == SelectSeq(ret.value, LAMBDA d : d.category = "todo")
        IN  /\ \A k \in DOMAIN todos : todos[k].severity = "low"
            /\ {todos[k].line : k \in DOMAIN todos} = MarkedLines(call.content)
            /\ Len(todos) = Cardinality(MarkedLines(call.content))

\* a file that does not parse, with a near-marker on line 1 and two markers on line 2,
\* has given one todo issue, at line 2
C20_Witness ==
    /\ returned("_detect_issues")
    /\ call.parsed.exc = "SyntaxError"
    /\ call.content = <<"#"," ","T","O","D","O","S","\n",
                        "T","O","D","O",":"," ","a"," ","H","A","C","K","\n">>
    /\ \E k \in DOMAIN ret.value : ret.value[k].category = "todo" /\ ret.value[k].line = 2

-----------------------------------------------------------------------------
(* The parameter rule (under SpecPure). *)

\* the parameters a function declares: the arg nodes of its arguments
DeclaredParameters(f) ==
    LET arguments == SelectSeq(f.children, LAMBDA n : n.type = "arguments")
    IN  IF arguments = <<>> THEN 0
        ELSE Len(SelectSeq(arguments[1].children, LAMBDA n : n.type = "arg"))

\* C21: for every function definition, a medium/design issue is emitted at the line of
\* the function if and only if the function declares more than max_function_params
\* parameters.
C21_IssueIffTooManyParameters ==
    returned("_detect_ast_issues") =>
        \A f \in Range(FunctionsOf(call.tree)) :
            (\E d \in Range(IssuesOf(ret.value, "medium", "design")) : d.line = f.lineno)
                <=> DeclaredParameters(f) > THRESHOLDS.max_function_params

-----------------------------------------------------------------------------
(* The long-line rule (under SpecPure). *)

\* the positions of the newlines of a text
NewlinesOf(content) == {k \in DOMAIN content : content[k] = "\n"}

\* the length of line n: the characters after the newline that ends line n - 1 and
\* before the next newline, or the end of the text
LengthOfLine(content, n) ==
    LET start == IF n = 1 THEN 0
                 ELSE CHOOSE k \in NewlinesOf(content) :
                          Cardinality({j \in NewlinesOf(content) : j < k}) = n - 2
        later == {k \in NewlinesOf(content) : k > start}
        end == IF later = {} THEN Len(content) + 1 ELSE Min(later)
    IN  end - start - 1

\* C22: for every line, _detect_issues gives a low/style issue at the number of the
\* line if and only if the line is longer than max_line_length, and then exactly one;
\* a line of exactly max_line_length characters gets none.
C22_LongLineIffOverLimit ==
    returned("_detect_issues") =>
        LET style == IssuesOf(ret.value, "low", "style")
            long == {n \in 1..(Cardinality(NewlinesOf(call.content)) + 1) :
                        LengthOfLine(call.content, n) > THRESHOLDS.max_line_length}
        IN  /\ {style[k].line : k \in DOMAIN style} = long
            /\ Len(style) = Cardinality(long)
            /\ SelectSeq(ret.value, LAMBDA d : d.category = "style") = style

\* a line of max_line_length characters followed by one of max_line_length + 1 has got
\* one issue, at line 2
C22_Witness ==
    /\ returned("_detect_issues")
    /\ NewlinesOf(call.content) # {}
    /\ LengthOfLine(call.content, 1) = THRESHOLDS.max_line_length
    /\ LengthOfLine(call.content, 2) = THRESHOLDS.max_line_length + 1
    /\ Len(IssuesOf(ret.value, "low", "style")) = 1
    /\ IssuesOf(ret.value, "low", "style")[1].line = 2

-----------------------------------------------------------------------------
(* The debug-print rule (under SpecPure). *)

\* the text of line n, without its newline
TextOfLine(content, n) ==
    LET start == IF n = 1 THEN 0
                 ELSE CHOOSE k \in NewlinesOf(content) :
                          Cardinality({j \in NewlinesOf(content) : j < k}) = n - 2
        later == {k \in NewlinesOf(content) : k > start}
        end == IF later = {} THEN Len(content) + 1 ELSE Min(later)
    IN  SubSeq(content, start + 1, end - 1)

\* the first characters of the line after its leading whitespace are print(
BeginsWithPrintCall(line) ==
    \E k \in DOMAIN line :
        /\ \A j \in 1..(k - 1) : line[j] \in Whitespace
        /\ k + 5 <= Len(line)
        /\ SubSeq(line, k, k + 5) = <<"p","r","i","n","t","(">>

\* the line names a logging facility: a word of it begins with log, in any case
\* (log, logger, logging, LOG, Logger.x)
ReferencesLogging(line) ==
    \E k \in 1..(Len(line) - 2) :
        /\ lower(SubSeq(line, k, k + 2)) = <<"l","o","g">>
        /\ (k = 1 \/ ~WordChar(line[k - 1]))

\* the line holds one of the banner sequences
HasBanner(line) ==
    \E k \in DOMAIN line :
        \/ line[k] \in {"check_mark", "cross_mark", "bar_chart", "light_bulb"}
        \/ k + 2 <= Len(line) /\ SubSeq(line, k, k + 2) \in {<<"=","=","=">>, <<"-","-","-">>}

\* C23: a low/debug issue is emitted for a line if and only if its stripped content
\* begins with a print call, the line does not reference a logging facility, and the
\* line holds none of the banner sequences.
C23_DebugPrintIff ==
    returned("_detect_issues") =>
        \A n \in 1..(Cardinality(NewlinesOf(call.content)) + 1) :
            (\E d \in Range(IssuesOf(ret.value, "low", "debug")) : d.line = n)
                <=> LET line == TextOfLine(call.content, n)
                    IN  /\ BeginsWithPrintCall(line)
                        /\ ~ReferencesLogging(line)
                        /\ ~HasBanner(line)

-----------------------------------------------------------------------------
(* Flat chains of conditions (under SpecPure). *)

\* an if with its elif and else branches, no block nested in any branch: a test and a
\* body of pass, followed by nothing, by an else branch of pass, or by the next elif
RECURSIVE FlatChain(_)
FlatChain(node) ==
    /\ node.type = "If"
    /\ Len(node.children) \in {2, 3}
    /\ node.children[1].type = "Name"
    /\ node.children[2].type = "Pass"
    /\ Len(node.children) = 3 =>
           \/ node.children[3].type = "Pass"
           \/ FlatChain(node.children[3])

\* the elif branches of a flat chain
RECURSIVE ElifsOf(_)
ElifsOf(node) ==
    IF Len(node.children) = 3 /\ node.children[3].type = "If"
    THEN 1 + ElifsOf(node.children[3]) ELSE 0

\* C26: a flat if/elif/.../else chain of any length, with no block nested in its
\* branches, never produces a deep-nesting issue.
C26_FlatChainNeverDeep ==
    (/\ returned("_detect_ast_issues")
     /\ Len(call.tree.children) = 1
     /\ FlatChain(call.tree.children[1]))
        => IssuesOf(ret.value, "high", "complexity") = <<>>

-----------------------------------------------------------------------------
(* A file whose analysis raises (under Spec). *)

\* a step of _analyze_file raises for the file: the read, the parse of
\* _calculate_metrics, or the issue detection
RaisesFor(rel_path) ==
    LET file == FileCatalogue[project.files[rel_path]]
    IN  \/ ~file.readable
        \/ file.parsed.exc \notin {"none", "SyntaxError"}
        \/ file.parsed.exc = "none" /\ detect_raises(file.parsed.tree)

\* C24: a file for which a step of _analyze_file raises contributes neither a Metrics
\* entry nor any Issue to the collections.
C24_AllOrNothing ==
    \A rel_path \in DOMAIN project.files :
        RaisesFor(rel_path) =>
            /\ \A i \in DOMAIN metrics : metrics[i].file # rel_path
            /\ \A i \in DOMAIN issues : issues[i].file # rel_path

-----------------------------------------------------------------------------
(* The floor of the maintainability index (under SpecPure). *)

\* the Metrics of a file of that size, complexity and index
MetricsWith(loc, complexity, index) ==
    [file |-> a_py, lines_of_code |-> loc, comment_lines |-> 0, blank_lines |-> 0,
     functions |-> 0, classes |-> 0, complexity |-> complexity,
     maintainability_index |-> index, max_function_length |-> 0, imports_count |-> 0]

\* C25: _calculate_maintainability returns at least 50 for every number of lines,
\* complexity and number of comment lines, so get_recommendations emits no
\* low-maintainability line for a file with that index.
C25_IndexAtLeastFifty ==
    returned("_calculate_maintainability") =>
        /\ ret.value.n >= 50 * ret.value.d
        /\ \A line \in Range(get_recommendations(
                                 <<>>, <<MetricsWith(call.loc, call.complexity, ret.value)>>)) :
               line.text # "maintainability is low"

\* the largest penalties without a comment: the index is 50, and no line is emitted
C25_Witness ==
    /\ returned("_calculate_maintainability")
    /\ call.loc > 1000 /\ call.complexity > 50 /\ call.comments = 0
    /\ ret.value = R(50, 1)
    /\ get_recommendations(<<>>, <<MetricsWith(call.loc, 0, ret.value)>>) = <<>>

-----------------------------------------------------------------------------
(* The two collections of an analyzer (under Spec). *)

\* every issue names a file that has a Metrics entry
IssuesHaveMetrics ==
    \A i \in DOMAIN issues : \E k \in DOMAIN metrics : metrics[k].file = issues[i].file

\* C27: at every point of a run, every Issue of the issue collection names a file that
\* has a Metrics entry in the metrics collection, and the metrics collection holds at
\* most one entry for a file.
C27_OneMetricsEntryPerFile ==
    /\ IssuesHaveMetrics
    /\ \A i, k \in DOMAIN metrics : i # k => metrics[i].file # metrics[k].file

-----------------------------------------------------------------------------
(* The documents export_report writes (under Spec). *)

\* C28: every document written by export_report has the six top-level fields
\* timestamp, thresholds, summary, issues, metrics and issues_detail, in whatever order
\* export_report and analyze_project are called, export_report before any
\* analyze_project included.
C28_WrittenDocumentsHaveSixFields ==
    \A path \in DOMAIN disk :
        DOMAIN disk[path]
            = {"timestamp", "thresholds", "summary", "issues", "metrics", "issues_detail"}

-----------------------------------------------------------------------------
(* The energy of the character (under SpecCharacter). *)

\* C29: after any sequence of update_energy, rest and record_interaction calls on a
\* character whose energy starts in 0..100, energy_level stays in 0..100, and
\* record_interaction lowers it by 5, and not below 0, on every 10th interaction and
\* leaves it as it is on every other.
C29_EnergyStaysInRange ==
    /\ [](state.energy_level \in 0..100)
    /\ [][state'.conversation_count = state.conversation_count + 1 =>
              state'.energy_level =
                  IF state'.conversation_count % 10 # 0 THEN state.energy_level
                  ELSE IF state.energy_level >= 5 THEN state.energy_level - 5
                  ELSE 0]_vars

\* the 10th interaction has taken the last 3 units of energy
C29_Witness ==
    /\ state.conversation_count = 10
    /\ state.last_interaction # None
    /\ state.energy_level = 0
    /\ state.mood = "exhausted"

-----------------------------------------------------------------------------
(* The conversation history (under SpecDialogue). *)

\* the last n entries of a list
LastOf(entries, n) == SubSeq(entries, Len(entries) - n + 1, Len(entries))

\* C30: after any sequence of add_to_history and generate_response calls the
\* conversation history holds at most 100 entries, and they are the most recently
\* added ones in the order they were added: a call (a step at which the clock is
\* read) adds one or two entries at the end, and what it drops are the oldest entries.
C30_HistoryKeepsTheLatest ==
    /\ [](Len(conversation_history) <= 100)
    /\ [][clock' # clock =>
              \E added \in 1..2 :
                  /\ Len(conversation_history')
                         = IF Len(conversation_history) + added <= 100
                           THEN Len(conversation_history) + added ELSE 100
                  /\ SubSeq(conversation_history', 1, Len(conversation_history') - added)
                         = LastOf(conversation_history, Len(conversation_history') - added)
                  /\ \A k \in 1..added :
                         LastOf(conversation_history', added)[k].timestamp.second = clock + k
          ]_vars

\* a history that was full has taken a message and its response and dropped its two
\* oldest entries
C30_Witness ==
    /\ Len(conversation_history) = 100
    /\ conversation_history[1].timestamp.second = clock - 99
    /\ clock > 101
    /\ conversation_history[99].sender = "user"
    /\ conversation_history[99].message = <<"h","i">>
    /\ conversation_history[100].sender = "alice"

====
